---- MODULE Spec2Model ----
(***************************************************************************)
(* LogView access-controlled file service: authorization engine            *)
(* (config.py), path resolver, directory lister, paginated reader and      *)
(* tail-follow streamer (file_service.py).                                  *)
(*                                                                         *)
(* Strings are sequences of one-character strings; a path on disk is a     *)
(* sequence of segments, each segment a string.                            *)
(***************************************************************************)
EXTENDS Integers, Sequences, FiniteSets, TLC

VARIABLES
    content,    \* bytes of the log file LogFile (the writer appends to it)
    readable,   \* whether the server process may open LogFile for reading
    pure,       \* one call of the pure functions: inputs and results
    ls,         \* one list_files call
    rd,         \* one get_file_content call
    tl,         \* one tail_file session
    tl2         \* a second tail_file session, of another request

vars == <<content, readable, pure, ls, rd, tl, tl2>>

----------------------------------------------------------------------------
(* Bounds of the model *)

\* most segments in a generated request path
MaxSegs == 4
\* most leading separators in a generated request path
MaxLead == 2
\* most lines the writer appends to the log file
MaxLines == 4
\* largest start_line a page request asks for
MaxStart == 4
\* largest page_size a page request asks for
MaxReqSize == 3

----------------------------------------------------------------------------
(* Strings *)

Sep == "/"
NL == "\n"

\* str.lstrip("/")
RECURSIVE lstrip(_)
lstrip(s) ==
    IF s # <<>> /\ Head(s) = Sep THEN lstrip(Tail(s)) ELSE s

\* str.rstrip('\n\r') (the files hold no '\r': text mode translates it)
RECURSIVE rstrip(_)
rstrip(s) ==
    IF s # <<>> /\ s[Len(s)] = NL THEN rstrip(SubSeq(s, 1, Len(s) - 1)) ELSE s

\* the pieces of s between separators, empty pieces included
RECURSIVE SplitFrom(_, _)
SplitFrom(s, cur) ==
    IF s = <<>> THEN <<cur>>
    ELSE IF Head(s) = Sep THEN <<cur>> \o SplitFrom(Tail(s), <<>>)
    ELSE SplitFrom(Tail(s), Append(cur, Head(s)))

\* segments joined by the separator: str(PurePath)
RECURSIVE JoinSegs(_)
JoinSegs(ss) ==
    IF ss = <<>> THEN <<>>
    ELSE IF Len(ss) = 1 THEN ss[1]
    ELSE ss[1] \o <<Sep>> \o JoinSegs(Tail(ss))

IsPrefix(p, s) == Len(p) <= Len(s) /\ SubSeq(s, 1, Len(p)) = p

\* Path.parent; the parent of the filesystem root is itself
Parent(p) == IF p = <<>> THEN <<>> ELSE SubSeq(p, 1, Len(p) - 1)

----------------------------------------------------------------------------
(* Configuration: settings = backend_config *)

Users == {"alice", "bob", "carol"}

\* A pattern is a sequence of tokens: "^", "$", "ANY" (.), "ANY*" (.*) or a
\* literal character.
Groups ==
    << [name |-> "app", pattern |-> <<"^", "a", "/", "ANY*", "b", "$">>,
        users |-> {"alice", "bob"}],
       [name |-> "dir", pattern |-> <<"a">>, users |-> {"bob"}],
       [name |-> "sec", pattern |-> <<"^", "b", "$">>, users |-> {"bob"}] >>

max_file_size == 6
default_page_size == 1
max_page_size == 2

\* settings.base_path, resolved at load time
base_path == << <<"r">> >>

----------------------------------------------------------------------------
(* Authorization engine *)

\* re.match(pattern, s): the pattern matches starting at position 1 of s;
\* it need not reach the end of s.
RECURSIVE MatchHere(_, _, _, _)
MatchHere(pat, i, s, j) ==
    IF i > Len(pat) THEN TRUE
    ELSE CASE pat[i] = "^" -> j = 1 /\ MatchHere(pat, i + 1, s, j)
           [] pat[i] = "$" -> j = Len(s) + 1 /\ MatchHere(pat, i + 1, s, j)
           [] pat[i] = "ANY" -> j <= Len(s) /\ MatchHere(pat, i + 1, s, j + 1)
           [] pat[i] = "ANY*" ->
                \E k \in j..(Len(s) + 1) : MatchHere(pat, i + 1, s, k)
           [] OTHER -> j <= Len(s) /\ s[j] = pat[i]
                       /\ MatchHere(pat, i + 1, s, j + 1)

re_match(pattern, s) == MatchHere(pattern, 1, s, 1)

\* re.fullmatch: as re.match, and the match must reach the end of s
re_fullmatch(pattern, s) == MatchHere(pattern \o <<"$">>, 1, s, 1)

file_matches_group_full(file_path, group) == re_fullmatch(group.pattern, file_path)

file_matches_group(file_path, group) == re_match(group.pattern, file_path)

\* [group.name for group in groups if username in group.users]
RECURSIVE UserGroupsOf(_, _)
UserGroupsOf(gs, username) ==
    IF gs = <<>> THEN <<>>
    ELSE (IF username \in Head(gs).users THEN <<Head(gs).name>> ELSE <<>>)
         \o UserGroupsOf(Tail(gs), username)

get_user_groups(username) == UserGroupsOf(Groups, username)

NoGroup == [name |-> "", pattern |-> <<>>, users |-> {}]

\* the first group of that name, or NoGroup (None)
RECURSIVE GroupByName(_, _)
GroupByName(gs, group_name) ==
    IF gs = <<>> THEN NoGroup
    ELSE IF Head(gs).name = group_name THEN Head(gs)
    ELSE GroupByName(Tail(gs), group_name)

get_group_by_name(group_name) == GroupByName(Groups, group_name)

RECURSIVE MatchingOf(_, _)
MatchingOf(names, file_path) ==
    IF names = <<>> THEN <<>>
    ELSE LET group == get_group_by_name(Head(names)) IN
         (IF group # NoGroup /\ file_matches_group(file_path, group)
          THEN <<Head(names)>> ELSE <<>>)
         \o MatchingOf(Tail(names), file_path)

get_accessible_groups_for_file(username, file_path) ==
    MatchingOf(get_user_groups(username), file_path)

----------------------------------------------------------------------------
(* Filesystem *)

DotDot == <<".", ".">>
Dot == <<".">>

LogFile == << <<"r">>, <<"a">>, <<"b">> >>

\* The tree below and beside the root.  /r/s is a symbolic link that leaves
\* the root; /r/b is a file that only group "sec" covers; /r/a/d is a
\* symbolic link whose target is missing; /r/a/a is a directory that cannot
\* be enumerated.
Nodes ==
    { [path |-> << <<"r">> >>, kind |-> "dir", size |-> 9, target |-> <<>>],
      [path |-> << <<"r">>, <<"a">> >>, kind |-> "dir", size |-> 9, target |-> <<>>],
      [path |-> LogFile, kind |-> "file", size |-> 0, target |-> <<>>],
      [path |-> << <<"r">>, <<"a">>, <<"s">> >>, kind |-> "file", size |-> 2,
       target |-> <<>>],
      [path |-> << <<"r">>, <<"a">>, <<"a">> >>, kind |-> "dir", size |-> 9,
       target |-> <<>>],
      [path |-> << <<"r">>, <<"a">>, <<"d">> >>, kind |-> "link", size |-> 0,
       target |-> << <<"r">>, <<"x">> >>],
      [path |-> << <<"r">>, <<"b">> >>, kind |-> "file", size |-> 2, target |-> <<>>],
      [path |-> << <<"r">>, <<"s">> >>, kind |-> "link", size |-> 0,
       target |-> << <<"e">> >>],
      [path |-> << <<"e">> >>, kind |-> "dir", size |-> 9, target |-> <<>>],
      [path |-> << <<"e">>, <<"b">> >>, kind |-> "file", size |-> 2, target |-> <<>>] }

NodeAt(p) == CHOOSE n \in Nodes : n.path = p

Exists(p) == p = <<>> \/ \E n \in Nodes : n.path = p
IsLink(p) == \E n \in Nodes : n.path = p /\ n.kind = "link"
IsFile(p) == \E n \in Nodes : n.path = p /\ n.kind = "file"
IsDir(p) == p = <<>> \/ \E n \in Nodes : n.path = p /\ n.kind = "dir"

\* directories the server process may search but not enumerate
Unlistable == { << <<"r">>, <<"a">>, <<"a">> >> }

\* the children of a directory, as paths
Children(dir) == { n.path : n \in { m \in Nodes : Parent(m.path) = dir /\ m.path # dir } }

\* path.stat() follows a symbolic link and fails when its target is missing
StatOk(p) == IF IsLink(p) THEN Exists(NodeAt(p).target) ELSE Exists(p)

\* the bytes of the static files
StaticBytes == <<"y", NL>>

BytesOf(p, c) == IF p = LogFile THEN c ELSE StaticBytes
SizeOf(p, size) == IF p = LogFile THEN size ELSE NodeAt(p).size
CanOpen(p, r) == IF p = LogFile THEN r ELSE TRUE

----------------------------------------------------------------------------
(* Path resolver *)

\* PurePath parts of a relative string: empty and "." pieces are dropped
Parts(s) == SelectSeq(SplitFrom(s, <<>>), LAMBDA x : x # <<>> /\ x # Dot)

\* Path.resolve(): walks the parts from cur, ".." drops the last resolved
\* segment, a symbolic link is replaced by its target
RECURSIVE Resolve(_, _)
Resolve(cur, parts) ==
    IF parts = <<>> THEN cur
    ELSE IF Head(parts) = DotDot THEN Resolve(Parent(cur), Tail(parts))
    ELSE LET nxt == Append(cur, Head(parts)) IN
         IF IsLink(nxt) THEN Resolve(NodeAt(nxt).target, Tail(parts))
         ELSE Resolve(nxt, Tail(parts))

\* the join without resolve(): what a string-prefix containment test sees
Unresolved(cur, parts) == cur \o parts

OutOfBounds == << <<"!">> >>

\* absolute_path.relative_to(base_path) raises ValueError
NotRelativeTo(abs, base) == ~IsPrefix(base, abs)

get_absolute_path_unresolved(relative_path) ==
    LET absolute_path == Unresolved(base_path, Parts(lstrip(relative_path)))
    IN  IF NotRelativeTo(absolute_path, base_path) THEN OutOfBounds
        ELSE absolute_path

get_absolute_path(relative_path) ==
    LET absolute_path == Resolve(base_path, Parts(lstrip(relative_path)))
    IN  IF NotRelativeTo(absolute_path, base_path) THEN OutOfBounds
        ELSE absolute_path

\* str(absolute_path.relative_to(base_path))
get_relative_path(absolute_path) ==
    JoinSegs(SubSeq(absolute_path, Len(base_path) + 1, Len(absolute_path)))

----------------------------------------------------------------------------
(* Inputs *)

Segs == { <<"a">>, <<"b">>, <<"s">>, DotDot, Dot }

SegSeqs == UNION { [1..k -> Segs] : k \in 0..MaxSegs }

Lead(n) == [i \in 1..n |-> Sep]

\* request strings: leading separators, then segments joined by separators
GenPaths == { Lead(l) \o JoinSegs(ss) : l \in 0..MaxLead, ss \in SegSeqs }

(* Text files *)

\* iteration over a text file: the lines with their terminators; bytes after
\* the last terminator form a last line
RECURSIVE LinesFrom(_, _)
LinesFrom(b, cur) ==
    IF b = <<>> THEN (IF cur = <<>> THEN <<>> ELSE <<cur>>)
    ELSE IF Head(b) = NL THEN <<Append(cur, NL)>> \o LinesFrom(Tail(b), <<>>)
    ELSE LinesFrom(Tail(b), Append(cur, Head(b)))

\* for _ in range(n): next(f), stopping at StopIteration
RECURSIVE SkipLines(_, _)
SkipLines(it, n) ==
    IF n <= 0 \/ it = <<>> THEN it ELSE SkipLines(Tail(it), n - 1)

\* for _ in range(n): lines.append(next(f).rstrip('\n\r')), stopping at
\* StopIteration
RECURSIVE TakeLines(_, _)
TakeLines(it, n) ==
    IF n <= 0 \/ it = <<>> THEN <<>>
    ELSE <<rstrip(Head(it))>> \o TakeLines(Tail(it), n - 1)

\* f.readline() at byte offset off: through the next terminator, or to the
\* end of the file when there is none; empty at the end of the file
RECURSIVE ReadLineFrom(_, _)
ReadLineFrom(b, off) ==
    IF off >= Len(b) THEN <<>>
    ELSE IF b[off + 1] = NL THEN <<NL>>
    ELSE <<b[off + 1]>> \o ReadLineFrom(b, off + 1)

----------------------------------------------------------------------------
(* Paginated reader: FileService.get_file_content *)

Min(a, b) == IF a < b THEN a ELSE b

\* page_size 0 stands for None
effective_page_size_unclamped(page_size) ==
    IF page_size = 0 THEN default_page_size ELSE page_size

effective_page_size(page_size) ==
    Min(IF page_size = 0 THEN default_page_size ELSE page_size, max_page_size)

\* the checks before the file is read, in the order the code makes them;
\* log is the filesystem calls made
read_checks_exists_first(username, file_path, size, r) ==
    LET abs == get_absolute_path(file_path) IN
    IF abs # OutOfBounds /\ ~Exists(abs)
    THEN [err |-> "NotFound", log |-> <<"resolve", "exists">>, abs |-> abs]
    ELSE IF get_accessible_groups_for_file(username, file_path) = <<>>
    THEN [err |-> "AccessDenied", log |-> <<"resolve", "exists">>, abs |-> abs]
    ELSE IF abs = OutOfBounds
    THEN [err |-> "OutOfBounds", log |-> <<"resolve">>, abs |-> abs]
    ELSE IF ~IsFile(abs)
    THEN [err |-> "NotAFile", log |-> <<"resolve", "exists", "is_file">>, abs |-> abs]
    ELSE IF SizeOf(abs, size) > max_file_size
    THEN [err |-> "TooLarge", log |-> <<"resolve", "exists", "is_file", "stat">>,
          abs |-> abs]
    ELSE IF ~CanOpen(abs, r)
    THEN [err |-> "IOError",
          log |-> <<"resolve", "exists", "is_file", "stat", "open">>, abs |-> abs]
    ELSE [err |-> "none",
          log |-> <<"resolve", "exists", "is_file", "stat", "open">>, abs |-> abs]

read_checks(username, file_path, size, r) ==
    IF get_accessible_groups_for_file(username, file_path) = <<>>
    THEN [err |-> "AccessDenied", log |-> <<>>, abs |-> <<>>]
    ELSE LET abs == get_absolute_path(file_path) IN
    IF abs = OutOfBounds
    THEN [err |-> "OutOfBounds", log |-> <<"resolve">>, abs |-> abs]
    ELSE IF ~Exists(abs)
    THEN [err |-> "NotFound", log |-> <<"resolve", "exists">>, abs |-> abs]
    ELSE IF ~IsFile(abs)
    THEN [err |-> "NotAFile", log |-> <<"resolve", "exists", "is_file">>, abs |-> abs]
    ELSE IF SizeOf(abs, size) > max_file_size
    THEN [err |-> "TooLarge", log |-> <<"resolve", "exists", "is_file", "stat">>,
          abs |-> abs]
    ELSE IF ~CanOpen(abs, r)
    THEN [err |-> "IOError",
          log |-> <<"resolve", "exists", "is_file", "stat", "open">>, abs |-> abs]
    ELSE [err |-> "none",
          log |-> <<"resolve", "exists", "is_file", "stat", "open">>, abs |-> abs]

\* total_lines = sum(1 for _ in f)
count_lines(b) == Len(LinesFrom(b, <<>>))

\* f.seek(0), the skip loop and the read loop
read_window_skip_start(b, start_line, page_size) ==
    TakeLines(SkipLines(LinesFrom(b, <<>>), start_line), page_size)

read_window(b, start_line, page_size) ==
    TakeLines(SkipLines(LinesFrom(b, <<>>), start_line - 1), page_size)

has_more_inclusive(start_line, n, total_lines) == (start_line + n - 1) <= total_lines

has_more_of(start_line, n, total_lines) == (start_line + n - 1) < total_lines


----------------------------------------------------------------------------
(* Idle values of the per-call records *)

PureIdle == [user |-> "", path |-> <<>>, groupsDone |-> FALSE, groups |-> <<>>,
             resolveDone |-> FALSE, resolved |-> <<>>,
             query_user |-> <<>>, header_user |-> <<>>, authDone |-> FALSE,
             authStatus |-> 0, authUser |-> <<>>,
             headerDone |-> FALSE, headerStatus |-> 0, headerAuthUser |-> <<>>,
             url |-> <<>>, routeDone |-> FALSE, endpoint |-> "", file_path |-> <<>>]
LsIdle == [pc |-> "idle", user |-> "", dir |-> <<>>, err |-> "none",
           entries |-> <<>>, log |-> <<>>]
RdIdle == [pc |-> "idle", user |-> "", path |-> <<>>, start |-> 0, size |-> 0,
           page_size |-> 0, abs |-> <<>>, err |-> "none", log |-> <<>>,
           handle |-> FALSE, size0 |-> 0, r0 |-> TRUE, counted |-> <<>>,
           seen |-> <<>>, total |-> 0, lines |-> <<>>, has_more |-> FALSE]
TlIdle == [pc |-> "idle", user |-> "", path |-> <<>>, abs |-> <<>>, err |-> "none",
           log |-> <<>>, handle |-> FALSE, offset |-> 0, openLen |-> 0,
           emitted |-> <<>>, events |-> <<>>]

----------------------------------------------------------------------------
(* The pure functions, applied to drawn inputs *)

InitPure ==
    /\ content = <<>>
    /\ readable = TRUE
    /\ pure \in { [PureIdle EXCEPT !.user = u, !.path = p] :
                    u \in Users, p \in GenPaths }
    /\ ls = LsIdle
    /\ rd = RdIdle
    /\ tl = TlIdle
    /\ tl2 = TlIdle

CallAccessibleGroups ==
    /\ ~pure.groupsDone
    /\ pure' = [pure EXCEPT !.groupsDone = TRUE,
                  !.groups = get_accessible_groups_for_file(pure.user, pure.path)]
    /\ UNCHANGED <<content, readable, ls, rd, tl, tl2>>

CallGetAbsolutePath ==
    /\ ~pure.resolveDone
    /\ pure' = [pure EXCEPT !.resolveDone = TRUE,
                  !.resolved = get_absolute_path(pure.path)]
    /\ UNCHANGED <<content, readable, ls, rd, tl, tl2>>

NextPure == CallAccessibleGroups \/ CallGetAbsolutePath

SpecPure == InitPure /\ [][NextPure]_vars

----------------------------------------------------------------------------
(* Authentication of the SSE endpoint: get_current_user_sse *)

\* the most characters of a query parameter or header value
MaxName == 3

\* what query_params.get and headers.get return for a missing key
None == <<"None">>

Whitespace == { " ", "\t" }

AuthChars == { " ", "u", "v" }

\* the values a request may carry: no value, or a string
AuthValues ==
    {None} \cup UNION { [1..n -> AuthChars] : n \in 0..MaxName }

RECURSIVE lstrip_ws(_)
lstrip_ws(s) ==
    IF s # <<>> /\ Head(s) \in Whitespace THEN lstrip_ws(Tail(s)) ELSE s

RECURSIVE rstrip_ws(_)
rstrip_ws(s) ==
    IF s # <<>> /\ s[Len(s)] \in Whitespace
    THEN rstrip_ws(SubSeq(s, 1, Len(s) - 1)) ELSE s

\* str.strip()
strip(s) == rstrip_ws(lstrip_ws(s))

\* the truth value of an optional string: None and "" are false
truthy(v) == v # None /\ v # <<>>

Unauthorized == [status |-> 401, user |-> <<>>]

\* the header looked at before the query parameter
get_current_user_sse_header_first(user_param, header_user) ==
    IF truthy(header_user) /\ truthy(strip(header_user))
    THEN [status |-> 200, user |-> strip(header_user)]
    ELSE IF truthy(user_param) /\ truthy(strip(user_param))
    THEN [status |-> 200, user |-> strip(user_param)]
    ELSE Unauthorized

get_current_user_sse(user_param, header_user) ==
    IF truthy(user_param) /\ truthy(strip(user_param))
    THEN [status |-> 200, user |-> strip(user_param)]
    ELSE IF truthy(header_user) /\ truthy(strip(header_user))
    THEN [status |-> 200, user |-> strip(header_user)]
    ELSE Unauthorized

\* if not user: raise 401; return user.strip()
get_current_user(user) ==
    IF ~truthy(user) THEN Unauthorized
    ELSE [status |-> 200, user |-> strip(user)]

InitAuth ==
    /\ content = <<>>
    /\ readable = TRUE
    /\ pure \in { [PureIdle EXCEPT !.query_user = q, !.header_user = h] :
                    q \in AuthValues, h \in AuthValues }
    /\ ls = LsIdle
    /\ rd = RdIdle
    /\ tl = TlIdle
    /\ tl2 = TlIdle

CallGetCurrentUserSse ==
    /\ ~pure.authDone
    /\ LET r == get_current_user_sse(pure.query_user, pure.header_user) IN
       pure' = [pure EXCEPT !.authDone = TRUE, !.authStatus = r.status,
                  !.authUser = r.user]
    /\ UNCHANGED <<content, readable, ls, rd, tl, tl2>>

CallGetCurrentUser ==
    /\ ~pure.headerDone
    /\ LET r == get_current_user(pure.header_user) IN
       pure' = [pure EXCEPT !.headerDone = TRUE, !.headerStatus = r.status,
                  !.headerAuthUser = r.user]
    /\ UNCHANGED <<content, readable, ls, rd, tl, tl2>>

NextAuth == CallGetCurrentUserSse \/ CallGetCurrentUser

SpecAuth == InitAuth /\ [][NextAuth]_vars

----------------------------------------------------------------------------
(* Routing: the GET routes of the application, in registration order. A URL
   path is the sequence of its segments: "/files/a/tail" is
   <<"files", "a", "tail">>. A route is the literal segments before its
   path parameter, whether it has one, and the literal segments after it. *)

\* the most segments of a request path
MaxUrlSegs == 4

UrlSegs == { "files", "a", "b", "tail", "download", "health" }

Urls == UNION { [1..n -> UrlSegs] : n \in 1..MaxUrlSegs }

Routes ==
    << [prefix |-> <<"">>, param |-> FALSE, suffix |-> <<>>, endpoint |-> "root"],
       [prefix |-> <<"health">>, param |-> FALSE, suffix |-> <<>>,
        endpoint |-> "health_check"],
       [prefix |-> <<"user">>, param |-> FALSE, suffix |-> <<>>,
        endpoint |-> "get_user_info"],
       [prefix |-> <<"files">>, param |-> FALSE, suffix |-> <<>>,
        endpoint |-> "list_files"],
       [prefix |-> <<"files">>, param |-> TRUE, suffix |-> <<>>,
        endpoint |-> "get_file"],
       [prefix |-> <<"files">>, param |-> TRUE, suffix |-> <<"tail">>,
        endpoint |-> "tail_file"],
       [prefix |-> <<"files">>, param |-> TRUE, suffix |-> <<"download">>,
        endpoint |-> "download_file"] >>

\* the route's path matches the whole URL path; a {file_path:path}
\* parameter matches any text, slashes included: one segment or more
route_matches(route, url) ==
    IF route.param
    THEN /\ Len(url) >= Len(route.prefix) + 1 + Len(route.suffix)
         /\ SubSeq(url, 1, Len(route.prefix)) = route.prefix
         /\ SubSeq(url, Len(url) - Len(route.suffix) + 1, Len(url)) = route.suffix
    ELSE url = route.prefix

\* the text the path parameter matched
path_param(route, url) ==
    IF route.param
    THEN SubSeq(url, Len(route.prefix) + 1, Len(url) - Len(route.suffix))
    ELSE <<>>

\* the first route in registration order whose path matches handles the
\* request
dispatch(url) ==
    LET hits == { i \in 1..Len(Routes) : route_matches(Routes[i], url) } IN
    IF hits = {} THEN [endpoint |-> "not_found", file_path |-> <<>>]
    ELSE LET first == CHOOSE i \in hits : \A j \in hits : i <= j IN
         [endpoint |-> Routes[first].endpoint,
          file_path |-> path_param(Routes[first], url)]

InitRoute ==
    /\ content = <<>>
    /\ readable = TRUE
    /\ pure \in { [PureIdle EXCEPT !.url = u] : u \in Urls }
    /\ ls = LsIdle
    /\ rd = RdIdle
    /\ tl = TlIdle
    /\ tl2 = TlIdle

\* a GET request for pure.url arrives
Dispatch ==
    /\ ~pure.routeDone
    /\ LET r == dispatch(pure.url) IN
       pure' = [pure EXCEPT !.routeDone = TRUE, !.endpoint = r.endpoint,
                  !.file_path = r.file_path]
    /\ UNCHANGED <<content, readable, ls, rd, tl, tl2>>

NextRoute == Dispatch

SpecRoute == InitRoute /\ [][NextRoute]_vars

----------------------------------------------------------------------------
(* The writer of the log file *)

LineTexts == { <<"x">>, <<"y">> }

\* the log file as the service finds it: empty, or holding an unterminated
\* line
InitialContents == { <<>>, <<"x">> }

\* another process appends one whole line in one write
AppendLine ==
    /\ count_lines(content) < MaxLines
    /\ \E t \in LineTexts : content' = content \o t \o <<NL>>
    /\ UNCHANGED <<readable, pure, ls, rd, tl, tl2>>

\* the most writes that end in the middle of a line
MaxChunks == 2

\* the bytes of the file that were written without a terminator after them
\* in the same write
ChunkBytes(c) == Len(c) - 2 * Cardinality({ i \in 1..Len(c) : c[i] = NL })

\* another process writes the start of a line and no terminator: the rest of
\* the line comes with a later write
AppendChunk ==
    /\ count_lines(content) < MaxLines
    /\ ChunkBytes(content) < MaxChunks
    /\ \E t \in LineTexts : content' = content \o t
    /\ UNCHANGED <<readable, pure, ls, rd, tl, tl2>>

----------------------------------------------------------------------------
(* get_file_content, in two steps: the checks, the open and the counting
   pass; then the reading pass.  The writer may append between the passes. *)

ReqPaths ==
    { <<"a", "/", "b">>, <<"a", "/", ".", ".", "/", "b">>, <<"b">>, <<"a">>,
      <<"a", "/", "x">>, <<".", ".", "/", "b">>, <<"/", "a", "/", "b">>,
      <<"s", "/", "b">> }

read_begin(t, u, p, s, k, c, r) ==
    LET chk == read_checks(u, p, Len(c), r)
        ok == chk.err = "none"
        b == IF ok THEN BytesOf(chk.abs, c) ELSE <<>>
    IN  [t EXCEPT !.user = u, !.path = p, !.start = s, !.size = k,
           !.page_size = effective_page_size(k),
           !.size0 = Len(c), !.r0 = r,
           !.err = chk.err, !.log = chk.log, !.abs = chk.abs,
           !.handle = ok,
           !.counted = b,
           !.total = IF ok THEN count_lines(b) ELSE 0,
           !.pc = IF ok THEN "reading" ELSE "done"]

ReadBegin ==
    /\ rd.pc = "idle"
    /\ \E u \in Users, p \in ReqPaths, s \in 1..MaxStart, k \in 0..MaxReqSize :
         rd' = read_begin(rd, u, p, s, k, content, readable)
    /\ UNCHANGED <<content, readable, pure, ls, tl, tl2>>

ReadPage ==
    /\ rd.pc = "reading"
    /\ LET b == BytesOf(rd.abs, content)
           lines == read_window(b, rd.start, rd.page_size)
       IN  rd' = [rd EXCEPT !.seen = b, !.lines = lines,
                    !.has_more = has_more_of(rd.start, Len(lines), rd.total),
                    !.handle = FALSE, !.pc = "done"]
    /\ UNCHANGED <<content, readable, pure, ls, tl, tl2>>

InitRead ==
    /\ content \in InitialContents
    /\ readable \in BOOLEAN
    /\ pure = PureIdle
    /\ ls = LsIdle
    /\ rd = RdIdle
    /\ tl = TlIdle
    /\ tl2 = TlIdle

\* the writer, for as long as the call has not returned
AppendBeforeReturn == rd.pc # "done" /\ AppendLine

NextRead == AppendBeforeReturn \/ ReadBegin \/ ReadPage

SpecRead == InitRead /\ [][NextRead]_vars

----------------------------------------------------------------------------
(* Directory lister: FileService.list_files *)

\* code points order the characters
CharCode(c) ==
    CASE c = "." -> 46 [] c = "/" -> 47 [] c = "a" -> 97 [] c = "b" -> 98
      [] c = "d" -> 100 [] c = "e" -> 101 [] c = "r" -> 114 [] c = "s" -> 115
      [] c = "x" -> 120 [] c = "y" -> 121 [] OTHER -> 0

\* str < str
RECURSIVE StrLess(_, _)
StrLess(a, b) ==
    IF b = <<>> THEN FALSE
    ELSE IF a = <<>> THEN TRUE
    ELSE IF Head(a) = Head(b) THEN StrLess(Tail(a), Tail(b))
    ELSE CharCode(Head(a)) < CharCode(Head(b))

\* sorted(accessible_files, key=lambda f: f.name): stable, ascending
RECURSIVE InsertByName(_, _)
InsertByName(sorted, e) ==
    IF sorted = <<>> THEN <<e>>
    ELSE IF StrLess(e.name, Head(sorted).name) THEN <<e>> \o sorted
    ELSE <<Head(sorted)>> \o InsertByName(Tail(sorted), e)

RECURSIVE SortByName(_)
SortByName(es) ==
    IF es = <<>> THEN <<>>
    ELSE InsertByName(SortByName(SubSeq(es, 1, Len(es) - 1)), es[Len(es)])

\* a failed stat() that ends the loop with the entries collected so far
on_stat_failure_partial(acc) == [err |-> "none", entries |-> acc]

\* path.stat() raises in FileInfo.__init__: the exception leaves list_files
\* and the entries collected so far are dropped
on_stat_failure(acc) == [err |-> "Unhandled", entries |-> <<>>]

\* the loop over dir_path.iterdir(), items in the order the filesystem
\* yields them: the accessible items are appended after their stat(); a
\* failing stat() ends the loop with an exception
RECURSIVE CollectItems(_, _, _)
CollectItems(username, items, acc) ==
    IF items = <<>> THEN [err |-> "none", entries |-> acc]
    ELSE LET item == Head(items)
             relative_path == get_relative_path(item)
         IN  IF get_accessible_groups_for_file(username, relative_path) = <<>>
             THEN CollectItems(username, Tail(items), acc)
             ELSE IF ~StatOk(item)
             THEN on_stat_failure(acc)
             ELSE CollectItems(username, Tail(items),
                     Append(acc, [name |-> item[Len(item)],
                                  relative_path |-> relative_path]))

\* all orders in which iterdir() may yield the children
Orders(S) ==
    { q \in [1..Cardinality(S) -> S] : \A i, j \in 1..Cardinality(S) :
                                          i # j => q[i] # q[j] }

\* the entries in the order the loop appended them
unsorted(es) == es

\* return sorted(accessible_files, key=lambda f: f.name)
sorted_by_name(es) == SortByName(es)

\* the listing with the kind of the path looked at before its existence
list_files_dir_first(username, directory, order) ==
    LET dir_path == get_absolute_path(directory) IN
    IF dir_path = OutOfBounds
    THEN [err |-> "OutOfBounds", entries |-> <<>>, log |-> <<"resolve">>]
    ELSE IF ~IsDir(dir_path)
    THEN [err |-> "NotADirectory", entries |-> <<>>,
          log |-> <<"resolve", "is_dir">>]
    ELSE IF get_user_groups(username) = <<>>
    THEN [err |-> "none", entries |-> <<>>, log |-> <<"resolve", "is_dir">>]
    ELSE IF dir_path \in Unlistable
    THEN [err |-> "PermissionDenied", entries |-> <<>>,
          log |-> <<"resolve", "is_dir", "iterdir">>]
    ELSE LET got == CollectItems(username, order, <<>>) IN
         [err |-> got.err, entries |-> sorted_by_name(got.entries),
          log |-> <<"resolve", "is_dir", "iterdir">>]

list_files(username, directory, order) ==
    LET dir_path == get_absolute_path(directory) IN
    IF dir_path = OutOfBounds
    THEN [err |-> "OutOfBounds", entries |-> <<>>, log |-> <<"resolve">>]
    ELSE IF ~Exists(dir_path)
    THEN [err |-> "NotFound", entries |-> <<>>, log |-> <<"resolve", "exists">>]
    ELSE IF ~IsDir(dir_path)
    THEN [err |-> "NotADirectory", entries |-> <<>>,
          log |-> <<"resolve", "exists", "is_dir">>]
    ELSE IF get_user_groups(username) = <<>>
    THEN [err |-> "none", entries |-> <<>>, log |-> <<"resolve", "exists", "is_dir">>]
    ELSE IF dir_path \in Unlistable
    THEN [err |-> "PermissionDenied", entries |-> <<>>,
          log |-> <<"resolve", "exists", "is_dir", "iterdir">>]
    ELSE LET got == CollectItems(username, order, <<>>) IN
         [err |-> got.err, entries |-> sorted_by_name(got.entries),
          log |-> <<"resolve", "exists", "is_dir", "iterdir">>]

ListFiles ==
    /\ ls.pc = "idle"
    /\ \E u \in Users, d \in GenPaths :
         LET dir_path == get_absolute_path(d)
             kids == IF dir_path # OutOfBounds /\ IsDir(dir_path)
                     THEN Children(dir_path) ELSE {}
         IN  \E order \in Orders(kids) :
               LET r == list_files(u, d, order) IN
               ls' = [pc |-> "done", user |-> u, dir |-> d, err |-> r.err,
                      entries |-> r.entries, log |-> r.log]
    /\ UNCHANGED <<content, readable, pure, rd, tl, tl2>>

InitList ==
    /\ content = <<>>
    /\ readable = TRUE
    /\ pure = PureIdle
    /\ ls = LsIdle
    /\ rd = RdIdle
    /\ tl = TlIdle
    /\ tl2 = TlIdle

NextList == ListFiles

SpecList == InitList /\ [][NextList]_vars

\* C4: for a user in no group and a directory path inside the root,
\* list_files returns an empty sequence without error and without any call
\* to the filesystem, whether or not the directory exists.
C4_NoGroupsListsNothing ==
    ls.pc = "done" /\ get_user_groups(ls.user) = <<>>
                   /\ get_absolute_path(ls.dir) # OutOfBounds
      => ls.err = "none" /\ ls.entries = <<>> /\ ls.log = <<>>

----------------------------------------------------------------------------
(* Tail-follow streamer: FileService.tail_file, consumed by generate_sse *)

\* the checks with the existence of the file looked at before the groups
tail_checks_exists_first(username, file_path) ==
    LET abs == get_absolute_path(file_path) IN
    IF abs # OutOfBounds /\ ~Exists(abs)
    THEN [err |-> "NotFound", log |-> <<"resolve", "exists">>, abs |-> abs]
    ELSE IF get_accessible_groups_for_file(username, file_path) = <<>>
    THEN [err |-> "AccessDenied", log |-> <<"resolve", "exists">>, abs |-> abs]
    ELSE IF abs = OutOfBounds
    THEN [err |-> "OutOfBounds", log |-> <<"resolve">>, abs |-> abs]
    ELSE IF ~IsFile(abs)
    THEN [err |-> "NotAFile", log |-> <<"resolve", "exists", "is_file">>, abs |-> abs]
    ELSE [err |-> "none", log |-> <<"resolve", "exists", "is_file">>, abs |-> abs]

\* the checks before the file is opened, in the order the code makes them
tail_checks(username, file_path) ==
    IF get_accessible_groups_for_file(username, file_path) = <<>>
    THEN [err |-> "AccessDenied", log |-> <<>>, abs |-> <<>>]
    ELSE LET abs == get_absolute_path(file_path) IN
    IF abs = OutOfBounds
    THEN [err |-> "OutOfBounds", log |-> <<"resolve">>, abs |-> abs]
    ELSE IF ~Exists(abs)
    THEN [err |-> "NotFound", log |-> <<"resolve", "exists">>, abs |-> abs]
    ELSE IF ~IsFile(abs)
    THEN [err |-> "NotAFile", log |-> <<"resolve", "exists", "is_file">>, abs |-> abs]
    ELSE [err |-> "none", log |-> <<"resolve", "exists", "is_file">>, abs |-> abs]

\* f.seek(0, 0): the position of the start of the file
seek_start(b) == 0

\* f.seek(0, 2): the position of the end of the file
seek_end(b) == Len(b)

\* a readline that, once it has met the end of the file, never reads on
readline_stuck(b, off) == <<>>

readline(b, off) == ReadLineFrom(b, off)

\* the position after a line that was read, without its terminator
advance_text_only(off, line) == off + Len(rstrip(line))

\* the position of the handle after readline returned line
advance(off, line) == off + Len(line)

\* a loop that ends when a read finds no data
after_no_data_stop == "closed"

\* else: await asyncio.sleep(...): where the loop goes when a read finds no
\* data
after_no_data == "sleep"

\* a wait after every element
after_yield_sleep == "sleep"

\* where the loop goes when the consumer asks for the next element
after_yield == "loop"

TailPaths ==
    { <<"a", "/", "b">>, <<"a", "/", ".", ".", "/", "b">>, <<"b">>, <<"a">>,
      <<"a", "/", "x">>, <<".", ".", "/", "b">> }

\* The steps of one session, on its own record t: the locals of one call of
\* tail_file (f, line) and of its generate_sse.

\* the first step of the generator: the checks, then open()
tail_begin(t, u, p, r) ==
    LET chk == tail_checks(u, p)
        opened == chk.err = "none" /\ CanOpen(chk.abs, r)
    IN  [t EXCEPT !.user = u, !.path = p, !.abs = chk.abs,
           !.err = IF chk.err # "none" THEN chk.err
                   ELSE IF opened THEN "none" ELSE "IOError",
           !.log = IF chk.err = "none" THEN Append(chk.log, "open")
                   ELSE chk.log,
           !.handle = opened,
           !.events = IF opened THEN <<>> ELSE <<"error">>,
           !.pc = IF opened THEN "opened" ELSE "error"]

\* f.seek(0, 2)
tail_seek(t, c) ==
    [t EXCEPT !.offset = seek_end(BytesOf(t.abs, c)),
       !.openLen = Len(BytesOf(t.abs, c)),
       !.pc = "loop"]

\* the position of the first session's handle, as if the sessions read
\* through one handle
shared_position(t) == tl.offset

\* the position of f, the handle this call opened
position(t) == t.offset

\* line = f.readline(); a line is yielded, no line starts the wait
tail_read(t, c) ==
    LET line == readline(BytesOf(t.abs, c), position(t)) IN
    IF line # <<>>
    THEN [t EXCEPT !.emitted = Append(t.emitted, rstrip(line)),
            !.events = Append(t.events, "data"),
            !.offset = advance(position(t), line),
            !.pc = "yield"]
    ELSE [t EXCEPT !.pc = after_no_data]

\* the consumer asks for the next element
tail_resume(t) == [t EXCEPT !.pc = after_yield]

\* asyncio.sleep(tail_check_interval) returns
tail_wake(t) == [t EXCEPT !.pc = "loop"]

\* readline raises OSError: the with block closes the file, and
\* generate_sse yields the exception as an error event
tail_read_fail(t) ==
    [t EXCEPT !.err = "IOError", !.handle = FALSE,
       !.events = Append(t.events, "error"), !.pc = "error"]

\* generate_sse returns after its error event: the response ends
tail_close(t) == [t EXCEPT !.pc = "closed"]

\* the consumer goes away while the generator waits in asyncio.sleep:
\* CancelledError unwinds the with block
tail_cancel_sleep(t) == [t EXCEPT !.handle = FALSE, !.pc = "cancelled"]

\* the consumer goes away while the generator is suspended at its yield:
\* nothing is thrown into tail_file, the generator is left suspended
tail_cancel_yield(t) == [t EXCEPT !.pc = "cancelled"]

\* the event loop finalizes the abandoned generator: GeneratorExit at the
\* yield unwinds the with block
tail_finalize(t) == [t EXCEPT !.handle = FALSE]

\* The steps of the session tl

TailBegin ==
    /\ tl.pc = "idle"
    /\ \E u \in Users, p \in TailPaths : tl' = tail_begin(tl, u, p, readable)
    /\ UNCHANGED <<content, readable, pure, ls, rd, tl2>>

TailSeek ==
    /\ tl.pc = "opened"
    /\ tl' = tail_seek(tl, content)
    /\ UNCHANGED <<content, readable, pure, ls, rd, tl2>>

TailRead ==
    /\ tl.pc = "loop"
    /\ tl' = tail_read(tl, content)
    /\ UNCHANGED <<content, readable, pure, ls, rd, tl2>>

TailResume ==
    /\ tl.pc = "yield"
    /\ tl' = tail_resume(tl)
    /\ UNCHANGED <<content, readable, pure, ls, rd, tl2>>

TailWake ==
    /\ tl.pc = "sleep"
    /\ tl' = tail_wake(tl)
    /\ UNCHANGED <<content, readable, pure, ls, rd, tl2>>

TailReadFail ==
    /\ tl.pc = "loop"
    /\ tl' = tail_read_fail(tl)
    /\ UNCHANGED <<content, readable, pure, ls, rd, tl2>>

TailClose ==
    /\ tl.pc = "error"
    /\ tl' = tail_close(tl)
    /\ UNCHANGED <<content, readable, pure, ls, rd, tl2>>

TailCancelSleep ==
    /\ tl.pc = "sleep"
    /\ tl' = tail_cancel_sleep(tl)
    /\ UNCHANGED <<content, readable, pure, ls, rd, tl2>>

TailCancelYield ==
    /\ tl.pc = "yield"
    /\ tl' = tail_cancel_yield(tl)
    /\ UNCHANGED <<content, readable, pure, ls, rd, tl2>>

TailFinalize ==
    /\ tl.pc = "cancelled"
    /\ tl.handle
    /\ tl' = tail_finalize(tl)
    /\ UNCHANGED <<content, readable, pure, ls, rd, tl2>>

TailEnded == tl.pc \in {"error", "cancelled", "closed"}

\* the writer, for as long as the session has not ended
AppendBeforeEnd == ~TailEnded /\ AppendLine

InitTail ==
    /\ content \in InitialContents
    /\ readable \in BOOLEAN
    /\ pure = PureIdle
    /\ ls = LsIdle
    /\ rd = RdIdle
    /\ tl = TlIdle
    /\ tl2 = TlIdle

NextTail ==
    \/ AppendBeforeEnd
    \/ TailBegin
    \/ TailSeek
    \/ TailRead
    \/ TailResume
    \/ TailWake
    \/ TailReadFail
    \/ TailClose
    \/ TailCancelSleep
    \/ TailCancelYield
    \/ TailFinalize

SpecTail == InitTail /\ [][NextTail]_vars

\* the event loop runs a ready generator, the timer of the wait fires, and
\* the consumer keeps asking for elements until it goes away
SpecTailFair ==
    /\ InitTail
    /\ [][NextTail]_vars
    /\ WF_vars(TailSeek)
    /\ WF_vars(TailRead)
    /\ WF_vars(TailResume)
    /\ WF_vars(TailWake)

\* the writer may also write a line in several writes
ChunkBeforeEnd == ~TailEnded /\ AppendChunk

NextTailChunks == NextTail \/ ChunkBeforeEnd

SpecTailChunks == InitTail /\ [][NextTailChunks]_vars

----------------------------------------------------------------------------
(* Two tail sessions at once: two requests, each with its own call of
   tail_file. The steps of the session tl2 are those of tl, on its own
   record. *)

\* who asks: a member of group "app" and a user in no group
SharedUsers == { "alice", "carol" }

\* what they ask for: the log file
SharedPaths == { <<"a", "/", "b">> }

TailBeginShared ==
    /\ tl.pc = "idle"
    /\ \E u \in SharedUsers, p \in SharedPaths :
         tl' = tail_begin(tl, u, p, readable)
    /\ UNCHANGED <<content, readable, pure, ls, rd, tl2>>

Tail2Begin ==
    /\ tl2.pc = "idle"
    /\ \E u \in SharedUsers, p \in SharedPaths :
         tl2' = tail_begin(tl2, u, p, readable)
    /\ UNCHANGED <<content, readable, pure, ls, rd, tl>>

Tail2Seek ==
    /\ tl2.pc = "opened"
    /\ tl2' = tail_seek(tl2, content)
    /\ UNCHANGED <<content, readable, pure, ls, rd, tl>>

Tail2Read ==
    /\ tl2.pc = "loop"
    /\ tl2' = tail_read(tl2, content)
    /\ UNCHANGED <<content, readable, pure, ls, rd, tl>>

Tail2Resume ==
    /\ tl2.pc = "yield"
    /\ tl2' = tail_resume(tl2)
    /\ UNCHANGED <<content, readable, pure, ls, rd, tl>>

Tail2Wake ==
    /\ tl2.pc = "sleep"
    /\ tl2' = tail_wake(tl2)
    /\ UNCHANGED <<content, readable, pure, ls, rd, tl>>

Tail2ReadFail ==
    /\ tl2.pc = "loop"
    /\ tl2' = tail_read_fail(tl2)
    /\ UNCHANGED <<content, readable, pure, ls, rd, tl>>

Tail2Close ==
    /\ tl2.pc = "error"
    /\ tl2' = tail_close(tl2)
    /\ UNCHANGED <<content, readable, pure, ls, rd, tl>>

Tail2CancelSleep ==
    /\ tl2.pc = "sleep"
    /\ tl2' = tail_cancel_sleep(tl2)
    /\ UNCHANGED <<content, readable, pure, ls, rd, tl>>

Tail2CancelYield ==
    /\ tl2.pc = "yield"
    /\ tl2' = tail_cancel_yield(tl2)
    /\ UNCHANGED <<content, readable, pure, ls, rd, tl>>

Tail2Finalize ==
    /\ tl2.pc = "cancelled"
    /\ tl2.handle
    /\ tl2' = tail_finalize(tl2)
    /\ UNCHANGED <<content, readable, pure, ls, rd, tl>>

Tail2Ended == tl2.pc \in {"error", "cancelled", "closed"}

\* the most lines of the file while two sessions follow it
MaxSharedLines == 2

\* the writer, for as long as a session may still read
AppendWhileTailing ==
    /\ ~(TailEnded /\ Tail2Ended)
    /\ count_lines(content) < MaxSharedLines
    /\ AppendLine

NextTwoTails ==
    \/ AppendWhileTailing
    \/ TailBeginShared
    \/ TailSeek
    \/ TailRead
    \/ TailResume
    \/ TailWake
    \/ TailReadFail
    \/ TailClose
    \/ TailCancelSleep
    \/ TailCancelYield
    \/ TailFinalize
    \/ Tail2Begin
    \/ Tail2Seek
    \/ Tail2Read
    \/ Tail2Resume
    \/ Tail2Wake
    \/ Tail2ReadFail
    \/ Tail2Close
    \/ Tail2CancelSleep
    \/ Tail2CancelYield
    \/ Tail2Finalize

\* a page read of the log file, started while the sessions run: alice asks
\* for the first page of a/b with the default page size
ReadAmongTails ==
    /\ rd.pc = "idle"
    /\ rd' = read_begin(rd, "alice", <<"a", "/", "b">>, 1, 0, content, readable)
    /\ UNCHANGED <<content, readable, pure, ls, tl, tl2>>

NextTwoTailsAndRead == NextTwoTails \/ ReadAmongTails \/ ReadPage

SpecTwoTails == InitTail /\ [][NextTwoTailsAndRead]_vars

----------------------------------------------------------------------------
(* One request for a file, a page read or a tail session, and the writer *)

Init ==
    /\ content \in InitialContents
    /\ readable \in BOOLEAN
    /\ pure = PureIdle
    /\ ls = LsIdle
    /\ rd = RdIdle
    /\ tl = TlIdle
    /\ tl2 = TlIdle

\* a page read begins when no tail session has been asked for, and the
\* other way round: the client makes one request
ReadBeginAlone == tl.pc = "idle" /\ ReadBegin

TailBeginAlone == rd.pc = "idle" /\ TailBegin

\* the writer, until the request has returned or ended
AppendWhilePending == rd.pc # "done" /\ ~TailEnded /\ AppendLine

Next ==
    \/ AppendWhilePending
    \/ ReadBeginAlone
    \/ ReadPage
    \/ TailBeginAlone
    \/ TailSeek
    \/ TailRead
    \/ TailResume
    \/ TailWake
    \/ TailReadFail
    \/ TailClose
    \/ TailCancelSleep
    \/ TailCancelYield
    \/ TailFinalize

Spec == Init /\ [][Next]_vars

----------------------------------------------------------------------------
(* Lines of a file, stated by the positions of the terminators *)

NLPos(b) == { i \in 1..Len(b) : b[i] = NL }

NthNL(b, n) == CHOOSE i \in NLPos(b) : Cardinality({ j \in NLPos(b) : j <= i }) = n

\* the number of lines: the terminators, and one more for bytes after the
\* last of them
NumLines(b) ==
    Cardinality(NLPos(b)) + (IF b # <<>> /\ b[Len(b)] # NL THEN 1 ELSE 0)

\* the text of line n, without its terminator
LineText(b, n) ==
    LET lo == IF n = 1 THEN 1 ELSE NthNL(b, n - 1) + 1
        hi == IF n <= Cardinality(NLPos(b)) THEN NthNL(b, n) - 1 ELSE Len(b)
    IN  SubSeq(b, lo, hi)

SeqToSet(q) == { q[i] : i \in 1..Len(q) }

----------------------------------------------------------------------------
(* Claims about the pure functions, under SpecPure *)

MatchingGroupNames(u, p) ==
    { Groups[i].name : i \in { j \in 1..Len(Groups) :
                                 u \in Groups[j].users /\ re_match(Groups[j].pattern, p) } }

\* C2: accessibleGroups(U, P) is exactly the set of the names of the groups
\* that have U as a member and whose pattern matches P from position 0 (a
\* match of a prefix of P counts): the user's groups intersected with the
\* groups matching P. It is empty for a user without memberships and for a
\* path no pattern matches.
C2_AccessibleGroupsExact ==
    pure.groupsDone =>
      /\ SeqToSet(pure.groups) = MatchingGroupNames(pure.user, pure.path)
      /\ SeqToSet(pure.groups) =
           SeqToSet(get_user_groups(pure.user))
             \cap { Groups[i].name : i \in { j \in 1..Len(Groups) :
                                             re_match(Groups[j].pattern, pure.path) } }
      /\ Len(pure.groups) = Cardinality(SeqToSet(pure.groups))
      /\ (\A i \in 1..Len(Groups) : pure.user \notin Groups[i].users)
           => pure.groups = <<>>
      /\ (\A i \in 1..Len(Groups) : ~re_match(Groups[i].pattern, pure.path))
           => pure.groups = <<>>

\* bob asks for a/b/s: "dir" matches on the prefix "a" alone, "app" does not
\* match, "sec" does not match
C2_Witness ==
    /\ pure.groupsDone
    /\ pure.user = "bob"
    /\ pure.path = <<"a", "/", "b", "/", "s">>
    /\ pure.groups = <<"dir">>

\* C3: resolve either fails with OutOfBoundsPath or returns a fully resolved
\* path (no "." or ".." segment, no symbolic link on the way) that is the
\* root or lies below it; inputs that leave the root through "..", through
\* a mix such as a/../../b or through a link fail, and a/b resolves to the
\* file a/b of the root.
C3_ResolveContained ==
    pure.resolveDone =>
      /\ pure.resolved # OutOfBounds =>
           /\ IsPrefix(base_path, pure.resolved)
           /\ \A i \in 1..Len(pure.resolved) :
                /\ pure.resolved[i] \notin {DotDot, Dot, <<>>}
                /\ ~IsLink(SubSeq(pure.resolved, 1, i))
      /\ pure.path \in { <<".", ".", "/", ".", ".", "/", "b">>,
                         <<"/", ".", ".", "/", "b">>,
                         <<"a", "/", ".", ".", "/", ".", ".", "/", "b">>,
                         <<"s", "/", "b">>,
                         <<"a", "/", ".", ".", "/", "s">> }
           => pure.resolved = OutOfBounds
      /\ pure.path = <<"a", "/", "b">> => pure.resolved = LogFile

\* a/../b resolves, inside the root, to the file b
C3_Witness ==
    /\ pure.resolveDone
    /\ pure.path = <<"a", "/", ".", ".", "/", "b">>
    /\ pure.resolved = << <<"r">>, <<"b">> >>

----------------------------------------------------------------------------
(* Claims about get_file_content, under SpecRead *)

RdOk == rd.pc = "done" /\ rd.err = "none"

\* the file did not change between the counting pass and the reading pass
RdStatic == rd.counted = rd.seen

\* C1: content is returned only when a group of the user matches the
\* canonical root-relative path of the file that is opened.
C1_AuthorizedOnCanonicalPath ==
    /\ RdOk => get_accessible_groups_for_file(rd.user, get_relative_path(rd.abs)) # <<>>
    /\ tl.handle =>
         get_accessible_groups_for_file(tl.user, get_relative_path(tl.abs)) # <<>>

\* C1, for the tail session alone
C1_TailAuthorizedOnCanonicalPath ==
    tl.handle =>
      get_accessible_groups_for_file(tl.user, get_relative_path(tl.abs)) # <<>>

\* C5: the error reported is the earliest failing check in the order
\* authorization, existence, regular file, size bound, read; no later check
\* and no open is made after a check has failed.
C5_CheckOrder ==
    rd.pc = "done" =>
      LET denied == get_accessible_groups_for_file(rd.user, rd.path) = <<>>
          abs == get_absolute_path(rd.path)
          missing == ~Exists(abs)
          notfile == ~IsFile(abs)
          large == SizeOf(abs, rd.size0) > max_file_size
          unreadable == ~CanOpen(abs, rd.r0)
      IN  /\ denied => rd.err = "AccessDenied" /\ rd.log = <<>>
          /\ ~denied /\ abs # OutOfBounds =>
               /\ missing => rd.err = "NotFound"
               /\ ~missing /\ notfile => rd.err = "NotAFile"
               /\ ~missing /\ ~notfile /\ large => rd.err = "TooLarge"
               /\ ~missing /\ ~notfile /\ ~large /\ unreadable => rd.err = "IOError"
               /\ ~missing /\ ~notfile /\ ~large /\ ~unreadable => rd.err = "none"
          /\ rd.err = "NotFound" =>
               SeqToSet(rd.log) \cap {"is_file", "stat", "open"} = {}
          /\ rd.err = "NotAFile" => SeqToSet(rd.log) \cap {"stat", "open"} = {}
          /\ rd.err = "TooLarge" => "open" \notin SeqToSet(rd.log)
          /\ rd.err # "none" => ~rd.handle /\ rd.lines = <<>>

\* carol, in no group, asks for a file that does not exist: both the
\* authorization and the existence check fail
C5_Witness ==
    /\ rd.pc = "done"
    /\ rd.user = "carol"
    /\ rd.path = <<"a", "/", "x">>
    /\ rd.err = "AccessDenied"

\* C6: a successful read returns at most min(requested or default, maximum)
\* lines, hence at most the maximum, also when the writer appended between
\* the two passes.
C6_PageSizeBound ==
    RdOk =>
      /\ Len(rd.lines) <= Min(IF rd.size = 0 THEN default_page_size ELSE rd.size,
                              max_page_size)
      /\ Len(rd.lines) <= max_page_size

\* more lines than the maximum were asked for, the writer appended between
\* the passes, and the page is full
C6_Witness ==
    /\ RdOk
    /\ rd.size > max_page_size
    /\ rd.counted # rd.seen
    /\ Len(rd.lines) = max_page_size

\* C7: on a static file of N lines, the page at startLine with k lines
\* holds exactly the lines startLine..min(startLine+k-1, N) in file order,
\* and hasMore says whether the page ends before line N.
C7_StaticPagePartition ==
    RdOk /\ RdStatic /\ rd.start <= NumLines(rd.seen) =>
      LET N == NumLines(rd.seen)
          k == rd.page_size
          last == Min(rd.start + k - 1, N)
      IN  /\ k >= 1
          /\ rd.lines = [i \in 1..(last - rd.start + 1) |->
                           LineText(rd.seen, rd.start + i - 1)]
          /\ rd.has_more = (last < N)
          /\ rd.total = N

\* the second page of two lines of a static file of three lines ends the file
C7_Witness ==
    /\ RdOk /\ RdStatic
    /\ NumLines(rd.seen) = 3
    /\ rd.start = 3 /\ rd.page_size = 2
    /\ Len(rd.lines) = 1
    /\ ~rd.has_more

\* C8: on a static file of N lines, a read at startLine > N returns no
\* lines, hasMore = false and totalLines = N.
C8_StartBeyondEnd ==
    RdOk /\ RdStatic /\ rd.start > NumLines(rd.seen) =>
      /\ rd.lines = <<>>
      /\ ~rd.has_more
      /\ rd.total = NumLines(rd.seen)

\* the read starts at the line right after the last of a file of two lines
C8_Witness ==
    /\ RdOk /\ RdStatic
    /\ NumLines(rd.seen) = 2
    /\ rd.start = 3

----------------------------------------------------------------------------
(* Claims about tail_file, under SpecTail and SpecTailFair *)

\* the session has run its seek to the end and has not ended
TlStreaming == tl.pc \in {"loop", "yield", "sleep"}

TlBytes == BytesOf(tl.abs, content)

\* the bytes written since the seek to the end
TlNew == SubSeq(TlBytes, tl.openLen + 1, Len(TlBytes))

\* those of them the session has read
TlRead == SubSeq(TlBytes, tl.openLen + 1, tl.offset)

\* C9: a session never emits what the file held when it opened: the
\* elements emitted are, in order, the lines of the bytes written after the
\* seek to the end and read since; once one line has been appended and read,
\* exactly that line has been emitted.
C9_NoReplay ==
    /\ tl.openLen <= tl.offset /\ tl.offset <= Len(TlBytes)
    /\ tl.emitted = [i \in 1..NumLines(TlRead) |-> LineText(TlRead, i)]
    /\ \A t \in LineTexts :
         TlStreaming /\ TlNew = t \o <<NL>> /\ tl.offset = Len(TlBytes)
           => tl.emitted = <<t>>

\* the file held two lines at the open; the line x appended since is the
\* one element emitted
C9_Witness ==
    /\ TlStreaming
    /\ tl.openLen = 4
    /\ TlNew = <<"x", NL>>
    /\ tl.emitted = << <<"x">> >>

\* C10: while the session runs, every line appended after its open is
\* emitted in the end; the session starts a wait only when a read found no
\* data, so a line is emitted by the poll that follows its append; nothing
\* is emitted while nothing has been appended.
C10_TailLiveness ==
    /\ \A n \in 1..(MaxLines + 1) :
         (TlStreaming /\ NumLines(TlNew) >= n)
           ~> (Len(tl.emitted) >= n \/ TailEnded)
    /\ [][tl.pc = "loop" /\ tl'.pc = "sleep" => tl.offset = Len(TlBytes)]_vars
    /\ [](TlStreaming /\ TlNew = <<>> => tl.emitted = <<>>)

\* the file was empty at the open; x was appended and has been emitted
C10_Witness ==
    /\ TlStreaming
    /\ tl.openLen = 0
    /\ TlNew = <<"x", NL>>
    /\ tl.emitted = << <<"x">> >>
    /\ tl.pc = "sleep"

\* C11: every element a session has emitted is the full text of one
\* terminator-ended line written after its open, the elements being these
\* lines in file order; a line written in several writes is not emitted in
\* pieces.
C11_WholeLinesOnly ==
    \A i \in 1..Len(tl.emitted) :
        /\ i <= Cardinality(NLPos(TlNew))
        /\ tl.emitted[i] = LineText(TlNew, i)

\* C12: a tail session checks authorization, then existence, then regular
\* file, before it opens the file: the error is that of the earliest check
\* that fails, no later check and no open follow a failed check, and no
\* element is emitted then; a file that passes the three checks is opened
\* without a look at its size, whatever the size.
C12_TailCheckOrder ==
    tl.pc # "idle" =>
      LET denied == get_accessible_groups_for_file(tl.user, tl.path) = <<>>
          abs == get_absolute_path(tl.path)
          missing == ~Exists(abs)
          notfile == ~IsFile(abs)
          steps == SeqToSet(tl.log)
      IN  /\ denied => tl.err = "AccessDenied" /\ tl.log = <<>>
          /\ ~denied /\ abs # OutOfBounds =>
               /\ missing => tl.err = "NotFound" /\ steps \cap {"is_file", "open"} = {}
               /\ ~missing /\ notfile => tl.err = "NotAFile" /\ "open" \notin steps
               /\ ~missing /\ ~notfile =>
                    /\ tl.err \in {"none", "IOError"}
                    /\ tl.log = <<"resolve", "exists", "is_file", "open">>
                    /\ CanOpen(abs, readable) /\ tl.pc = "opened" => tl.handle
          /\ tl.err \in {"AccessDenied", "OutOfBounds", "NotFound", "NotAFile"} =>
               /\ tl.emitted = <<>>
               /\ ~tl.handle
               /\ tl.events = <<"error">>

\* a session opened on a file larger than the maximum file size has emitted
\* a line appended since
C12_Witness ==
    /\ TlStreaming
    /\ tl.openLen > max_file_size
    /\ Len(tl.emitted) = 1

\* the events of a session that emitted these elements and no error
DataEvents(emitted) == [i \in 1..Len(emitted) |-> "data"]

\* C13: a streaming session leaves the poll loop only by a cancellation or
\* by a read failure, and stays in it while the file is unchanged; a read
\* failure delivers one error event, after the data events of all elements
\* emitted before it, and neither an element nor an event follows the error
\* event.
C13_EndsOnlyByCancelOrFailure ==
    /\ [][TlStreaming /\ ~TlStreaming' =>
            \/ tl'.pc = "cancelled" /\ tl'.events = tl.events
            \/ /\ tl'.pc = "error" /\ tl'.err = "IOError"
               /\ tl'.events = Append(tl.events, "error")]_vars
    /\ [][TlStreaming /\ tl.offset = Len(TlBytes) /\ content' = content
            /\ tl'.pc \notin {"cancelled", "error"}
          => TlStreaming' /\ tl'.emitted = tl.emitted /\ tl'.events = tl.events]_vars
    /\ [](TlStreaming => tl.events = DataEvents(tl.emitted))
    /\ [](tl.err = "IOError" => tl.events = Append(DataEvents(tl.emitted), "error"))
    /\ [][tl.pc \in {"error", "closed"} =>
            tl'.events = tl.events /\ tl'.emitted = tl.emitted]_vars

\* a session that emitted one element, then failed to read: its error event
\* was the last event and the response has ended
C13_Witness ==
    /\ tl.pc = "closed"
    /\ tl.err = "IOError"
    /\ Len(tl.emitted) = 1
    /\ tl.events = <<"data", "error">>

\* the number of times a call opened a file
Opens(log) == Cardinality({ i \in 1..Len(log) : log[i] = "open" })

\* C14: a call opens at most one file handle, and the handle is released
\* when the call is over: when a read has returned or failed, and when the
\* task of a tail session has exited, by a read failure or by a
\* cancellation in the poll wait or at the emission of an element.
C14_HandleReleasedAtExit ==
    /\ Opens(rd.log) <= 1 /\ Opens(tl.log) <= 1
    /\ rd.pc = "done" => ~rd.handle
    /\ TailEnded => ~tl.handle

\* C19: the session starts a poll wait only from a read that returned no
\* data, and never from the emission of an element; a read that finds a
\* line available emits it, so two lines that are both available are
\* emitted with no wait between them.
C19_WaitOnlyAfterEmptyRead ==
    /\ [][tl'.pc = "sleep" /\ tl.pc # "sleep" =>
            /\ tl.pc = "loop"
            /\ ReadLineFrom(TlBytes, tl.offset) = <<>>
            /\ tl'.emitted = tl.emitted]_vars
    /\ [][tl.pc = "yield" /\ tl'.pc # "yield" => tl'.pc \in {"loop", "cancelled"}]_vars
    /\ [][tl.pc = "loop" /\ tl.offset < Len(TlBytes) /\ tl'.pc \notin {"loop", "error"} =>
            /\ tl'.pc = "yield"
            /\ Len(tl'.emitted) = Len(tl.emitted) + 1]_vars

\* an element is being emitted while the next line is already in the file
C19_Witness ==
    /\ tl.pc = "yield"
    /\ Len(tl.emitted) = 1
    /\ NumLines(TlNew) = 2
    /\ tl.offset < Len(TlBytes)

\* C20: with a writer that appends whole lines, the elements emitted are
\* at every moment the first lines appended since the open, in file order,
\* none left out and none twice; the elements only grow at the end, and
\* the read offset never decreases.
C20_PrefixOfAppended ==
    /\ [](/\ Len(tl.emitted) <= NumLines(TlNew)
          /\ tl.emitted = [i \in 1..Len(tl.emitted) |-> LineText(TlNew, i)])
    /\ [][/\ Len(tl'.emitted) >= Len(tl.emitted)
          /\ SubSeq(tl'.emitted, 1, Len(tl.emitted)) = tl.emitted]_vars
    /\ [][tl'.offset >= tl.offset]_vars

\* three lines were appended since the open; the first two have been
\* emitted
C20_Witness ==
    /\ TlStreaming
    /\ TlNew = <<"x", NL, "y", NL, "x", NL>>
    /\ tl.emitted = << <<"x">>, <<"y">> >>

----------------------------------------------------------------------------
(* Claims about the directory lister, under SpecList *)

LsDir == get_absolute_path(ls.dir)

\* the directory of the listing exists and can be enumerated
LsEnumerable ==
    /\ LsDir # OutOfBounds
    /\ Exists(LsDir) /\ IsDir(LsDir)
    /\ LsDir \notin Unlistable

\* the children of the directory that some group of the user covers
LsAccessible ==
    { c \in Children(LsDir) :
        get_accessible_groups_for_file(ls.user, get_relative_path(c)) # <<>> }

\* the listing succeeded with exactly the accessible children, each once,
\* in ascending order of name
LsExact ==
    /\ ls.err = "none"
    /\ Len(ls.entries) = Cardinality(LsAccessible)
    /\ { ls.entries[i] : i \in 1..Len(ls.entries) }
         = { [name |-> c[Len(c)], relative_path |-> get_relative_path(c)] :
               c \in LsAccessible }
    /\ \A i, j \in 1..Len(ls.entries) :
         i < j => StrLess(ls.entries[i].name, ls.entries[j].name)

C16_ListFailureOrder ==
    ls.pc = "done" =>
      /\ LsDir = OutOfBounds => ls.err = "OutOfBounds"
      /\ LsDir # OutOfBounds =>
           /\ ~Exists(LsDir) => ls.err = "NotFound"
           /\ Exists(LsDir) /\ ~IsDir(LsDir) => ls.err = "NotADirectory"
           /\ Exists(LsDir) /\ IsDir(LsDir) /\ LsDir \in Unlistable
                /\ "iterdir" \in SeqToSet(ls.log)
              => ls.err = "PermissionDenied"
           /\ Exists(LsDir) /\ IsDir(LsDir) /\ get_user_groups(ls.user) # <<>>
              => "iterdir" \in SeqToSet(ls.log)
      /\ ls.err = "NotFound" => "is_dir" \notin SeqToSet(ls.log)
      /\ ls.err \in {"OutOfBounds", "NotFound", "NotADirectory"}
           => "iterdir" \notin SeqToSet(ls.log)
      /\ ls.err # "none" => ls.entries = <<>>

\* bob lists a directory that exists and cannot be enumerated
C16_Witness ==
    /\ ls.pc = "done"
    /\ ls.user = "bob"
    /\ LsDir \in Unlistable
    /\ ls.err = "PermissionDenied"
    /\ ls.entries = <<>>

----------------------------------------------------------------------------
(* Claims about authentication and routing, under SpecAuth and SpecRoute *)

\* no value, the empty string, or whitespace only
Blank(v) == v = None \/ \A i \in 1..Len(v) : v[i] \in Whitespace

\* the value from its first to its last character that is not whitespace
Core(v) ==
    LET solid == { i \in 1..Len(v) : v[i] \notin Whitespace }
        lo == CHOOSE i \in solid : \A j \in solid : i <= j
        hi == CHOOSE i \in solid : \A j \in solid : j <= i
    IN  SubSeq(v, lo, hi)

\* C17: get_current_user_sse returns the stripped query parameter 'user'
\* when it is not blank, whatever the header; else the stripped header
\* value when that is not blank; else it fails with 401. A username it
\* returns is never empty and never starts or ends with whitespace.
C17_SseUserPrecedence ==
    pure.authDone =>
      LET q == pure.query_user
          h == pure.header_user
      IN  /\ ~Blank(q) => pure.authStatus = 200 /\ pure.authUser = Core(q)
          /\ Blank(q) /\ ~Blank(h) =>
               pure.authStatus = 200 /\ pure.authUser = Core(h)
          /\ Blank(q) /\ Blank(h) => pure.authStatus = 401
          /\ pure.authStatus = 200 => ~Blank(pure.authUser)

\* the parameter " u" and the header "v": the user is u
C17_Witness ==
    /\ pure.authDone
    /\ pure.query_user = <<" ", "u">>
    /\ pure.header_user = <<"v">>
    /\ pure.authStatus = 200
    /\ pure.authUser = <<"u">>

\* C18: a GET for /files/<p>/tail is handled by the tail handler with
\* file_path = <p>, and a GET for /files/<p>/download by the download
\* handler with file_path = <p>, for every file path <p>.
C18_TailAndDownloadRouted ==
    pure.routeDone /\ Len(pure.url) >= 3 /\ pure.url[1] = "files" =>
      LET p == SubSeq(pure.url, 2, Len(pure.url) - 1)
          last == pure.url[Len(pure.url)]
      IN  /\ last = "tail" => pure.endpoint = "tail_file" /\ pure.file_path = p
          /\ last = "download" =>
               pure.endpoint = "download_file" /\ pure.file_path = p

\* C23: get_current_user rejects with 401 a request whose auth header is
\* absent, empty or whitespace only, and a username it returns is the
\* stripped header value and is not empty.
C23_HeaderUserNeverEmpty ==
    pure.headerDone =>
      /\ Blank(pure.header_user) => pure.headerStatus = 401
      /\ ~Blank(pure.header_user) =>
           pure.headerStatus = 200 /\ pure.headerAuthUser = Core(pure.header_user)
      /\ pure.headerStatus = 200 => pure.headerAuthUser # <<>>

\* C22: a listing never succeeds in part: when the enumeration it attempts
\* is denied, or the metadata of an accessible child cannot be read, the
\* listing ends in an error and returns no entries, whatever it had
\* collected before; a listing that succeeds contains every accessible
\* child of the directory.
C22_NoPartialListing ==
    ls.pc = "done" =>
      /\ "iterdir" \in SeqToSet(ls.log)
           /\ (LsDir \in Unlistable \/ \E c \in LsAccessible : ~StatOk(c))
         => ls.err # "none" /\ ls.entries = <<>>
      /\ ls.err = "none" /\ LsDir # OutOfBounds =>
           \A c \in LsAccessible :
             \E i \in 1..Len(ls.entries) :
               ls.entries[i].relative_path = get_relative_path(c)

\* bob lists a: the children b and s can be read, the link d has no target,
\* and the listing is an error without entries
C22_Witness ==
    /\ ls.pc = "done"
    /\ ls.user = "bob"
    /\ \E c \in LsAccessible : StatOk(c)
    /\ \E c \in LsAccessible : ~StatOk(c)
    /\ ls.err = "Unhandled"
    /\ ls.entries = <<>>

----------------------------------------------------------------------------
(* Claims about sessions running at once, under SpecTwoTails *)

SessStreaming(t) == t.pc \in {"loop", "yield", "sleep"}

SessBytes(t) == BytesOf(t.abs, content)

\* the bytes written since the session's seek to the end
SessNew(t) == SubSeq(SessBytes(t), t.openLen + 1, Len(SessBytes(t)))

\* those of them the session has read
SessRead(t) == SubSeq(SessBytes(t), t.openLen + 1, t.offset)

\* the session has emitted, in order and each once, the lines written
\* after its own open that lie before its own offset; all of them when its
\* offset is the end of the file
SessOwnLines(t) ==
    /\ t.openLen <= t.offset /\ t.offset <= Len(SessBytes(t))
    /\ t.emitted = [i \in 1..NumLines(SessRead(t)) |-> LineText(SessRead(t), i)]
    /\ SessStreaming(t) /\ t.offset = Len(SessBytes(t)) =>
         t.emitted = [i \in 1..NumLines(SessNew(t)) |-> LineText(SessNew(t), i)]
    /\ t.handle => t.pc \in {"opened", "loop", "yield", "sleep", "cancelled"}

\* C21: sessions that run at once share nothing: each session emits the
\* lines appended after its own open, in order and each once, up to its own
\* offset, however the steps of the other session and of the writer fall
\* between its own; a step of one session (a read, a wait, a cancellation,
\* a failure) changes neither the other session's handle, offset and
\* elements nor the file.
C21_SessionsShareNothing ==
    /\ [](SessOwnLines(tl) /\ SessOwnLines(tl2))
    /\ [][tl' # tl => tl2' = tl2 /\ content' = content]_vars
    /\ [][tl2' # tl2 => tl' = tl /\ content' = content]_vars

\* two sessions on the same file, opened at different sizes of it: the
\* first was cancelled after one element, the second has emitted the one
\* line appended since its own open and still holds its handle
C21_Witness ==
    /\ tl.abs = LogFile /\ tl2.abs = LogFile
    /\ tl.pc = "cancelled" /\ ~tl.handle
    /\ Len(tl.emitted) = 1
    /\ tl.openLen < tl2.openLen
    /\ tl2.pc = "yield" /\ tl2.handle
    /\ Len(tl2.emitted) = 1
    /\ tl2.offset = Len(content)

====
